---------------------------- MODULE Spec2Model ----------------------------
(***************************************************************************)
(* Closeness centrality (networkx/algorithms/centrality/closeness.py):     *)
(* the batch computation closeness_centrality and the incremental          *)
(* maintenance incremental_closeness_centrality, as a state machine over    *)
(* the caller's graph.                                                      *)
(*                                                                         *)
(* A graph is a record [nodes, directed, arcs]: arcs is the adjacency as a  *)
(* set of ordered pairs, symmetric when the graph is undirected.  Edges     *)
(* join two distinct nodes.  attr gives every arc its value of the numeric  *)
(* edge attribute, counted in ticks of 1/WeightDen.                         *)
(* Centrality values are exact fractions <<numerator, denominator>> in      *)
(* lowest terms; 0.0 is <<0, 1>>.                                           *)
(***************************************************************************)
EXTENDS Naturals, Integers, FiniteSets, Sequences, TLC

VARIABLES G,      \* the caller's graph
          attr,   \* the numeric edge attribute of every arc (ticks)
          call,   \* the arguments of the last call and the graph at its entry
          du,     \* distance map measured from endpoint u (empty: not measured)
          dv,     \* distance map measured from endpoint v (empty: not measured)
          ret,    \* the returned CentralityMap (empty when nothing is returned)
          err     \* the error that reached the caller, "none" when the call returned

vars == <<G, attr, call, du, dv, ret, err>>

-----------------------------------------------------------------------------
(* Bounds of the model *)

\* A graph of k nodes has the nodes 1..k.
MaxNodes == 4        \* nodes of an undirected graph
MaxDirNodes == 3     \* nodes of a directed graph given to closeness_centrality
MaxRejected == 2     \* nodes of a directed graph given to incremental_closeness_centrality
MaxWeighted == 2     \* nodes of a graph whose edge weights differ from 1
WeightDen == 2       \* ticks per unit of distance: weights are multiples of 1/WeightDen

\* the edge weights, in ticks: 0, a fraction of 1, 1, and more than 1
Weights == {0, 1, WeightDen, WeightDen + 1}

-----------------------------------------------------------------------------
(* Values *)

NoMap == [n \in {} |-> 0]

Abs(x) == IF x < 0 THEN 0 - x ELSE x

RECURSIVE Gcd(_, _)
Gcd(a, b) == IF b = 0 THEN a ELSE Gcd(b, a % b)

\* the fraction n/d in lowest terms (d > 0)
Frac(n, d) == LET g == Gcd(n, d) IN <<n \div g, d \div g>>

FracMul(x, y) == Frac(x[1] * y[1], x[2] * y[2])

FracLeq(x, y) == x[1] * y[2] <= y[1] * x[2]

Zero == <<0, 1>>
One == <<1, 1>>

RECURSIVE SumOver(_, _)
SumOver(f, S) ==
    IF S = {} THEN 0
    ELSE LET x == CHOOSE y \in S : TRUE IN f[x] + SumOver(f, S \ {x})

\* sum(sp.values())
SumValues(f) == SumOver(f, DOMAIN f)

Min(S) == CHOOSE x \in S : \A y \in S : x <= y

-----------------------------------------------------------------------------
(* The graph collaborator *)

Sym(A) == A \cup {<<a[2], a[1]>> : a \in A}

has_edge(g, u, v) == <<u, v>> \in g.arcs

add_edge(g, u, v) ==
    [g EXCEPT !.arcs = @ \cup (IF g.directed THEN {<<u, v>>} ELSE {<<u, v>>, <<v, u>>})]

remove_edge(g, u, v) ==
    [g EXCEPT !.arcs = @ \ (IF g.directed THEN {<<u, v>>} ELSE {<<u, v>>, <<v, u>>})]

\* G.reverse(): the view with every arc's endpoints swapped
reverse(g) == [g EXCEPT !.arcs = {<<a[2], a[1]>> : a \in g.arcs}]

RECURSIVE bfs_levels(_, _, _, _)
bfs_levels(arcs, frontier, dist, d) ==
    IF frontier = {} THEN dist
    ELSE LET next == {a[2] : a \in {x \in arcs : x[1] \in frontier}} \ DOMAIN dist
         IN bfs_levels(arcs, next, dist @@ [n \in next |-> d + 1], d + 1)

\* nx.single_source_shortest_path_length: hop counts of the reachable nodes
single_source_shortest_path_length(g, source) ==
    bfs_levels(g.arcs, {source}, [n \in {source} |-> 0], 0)

RECURSIVE relax(_, _, _)
relax(arcs, w, dist) ==
    LET reached == DOMAIN dist \cup {a[2] : a \in {x \in arcs : x[1] \in DOMAIN dist}}
        cand(b) == {dist[a[1]] + w[a] : a \in {x \in arcs : x[1] \in DOMAIN dist /\ x[2] = b}}
                   \cup (IF b \in DOMAIN dist THEN {dist[b]} ELSE {})
        new == [b \in reached |-> Min(cand(b))]
    IN IF new = dist THEN dist ELSE relax(arcs, w, new)

\* nx.single_source_dijkstra_path_length with the edge attribute as weight (ticks)
single_source_dijkstra_path_length(g, source, w) ==
    relax(g.arcs, w, [n \in {source} |-> 0])

-----------------------------------------------------------------------------
(* closeness_centrality *)

\* the attribute as the reversed view shows it: arc <<a, b>> of the view is arc <<b, a>>
reversed_attr(w) == [a \in {<<x[2], x[1]>> : x \in DOMAIN w} |-> w[<<a[2], a[1]>>]]

\* variant: the traversal on the graph itself, whatever its kind
traversal_view_unreversed(g, w) == [graph |-> g, attr |-> w]

\* the graph the traversal runs on: the reversed view of a directed graph
traversal_view(g, w) ==
    IF g.directed THEN [graph |-> reverse(g), attr |-> reversed_attr(w)]
    ELSE [graph |-> g, attr |-> w]

\* path_length(G, n): Dijkstra on the attribute when distance is given, else BFS
path_length(g, w, distance, n) ==
    IF distance THEN single_source_dijkstra_path_length(g, n, w)
    ELSE single_source_shortest_path_length(g, n)

\* ticks per unit of distance in the maps path_length returns
unit_of(distance) == IF distance THEN WeightDen ELSE 1

\* variant: the node itself counted among the nodes it reaches
node_closeness_counting_self(sp, unit, N, wf_improved) ==
    LET totsp == SumValues(sp)
        reach == Cardinality(DOMAIN sp)
    IN IF totsp > 0 /\ N > 1
       THEN LET c == Frac(reach * unit, totsp)
            IN IF wf_improved THEN FracMul(c, Frac(reach, N - 1)) ELSE c
       ELSE Zero

\* the value of one node from its distance map sp; N is len(G)
node_closeness(sp, unit, N, wf_improved) ==
    LET totsp == SumValues(sp)
        reach == Cardinality(DOMAIN sp) - 1
    IN IF totsp > 0 /\ N > 1
       THEN LET c == Frac(reach * unit, totsp)
            IN IF wf_improved THEN FracMul(c, Frac(reach, N - 1)) ELSE c
       ELSE Zero

\* closeness_centrality(G, u, distance, wf_improved); u = 0 stands for u=None
closeness_centrality(g, w, u, distance, wf_improved) ==
    LET view == traversal_view(g, w)
        nodes == IF u = 0 THEN g.nodes ELSE {u}
    IN [n \in nodes |->
          node_closeness(path_length(view.graph, view.attr, distance, n), unit_of(distance),
                         Cardinality(view.graph.nodes), wf_improved)]

-----------------------------------------------------------------------------
(* incremental_closeness_centrality *)

\* @not_implemented_for(kind): the wrapper raises before the body runs
not_implemented_for(kind, g) ==
    \/ kind = "directed" /\ g.directed
    \/ kind = "undirected" /\ ~g.directed
    \/ kind = "multigraph" /\ FALSE      \* the graphs here hold one edge per pair

\* variant: the decorator given the wrong graph kind
rejected_multigraph(g) == not_implemented_for("multigraph", g)

\* the decorator on incremental_closeness_centrality
rejected(g) == not_implemented_for("directed", g)

\* variant: a key check that only looks for nodes the previous result lacks
stale_cache_missing_only(prev, g) ==
    Cardinality(g.nodes) # Cardinality(DOMAIN prev \cap g.nodes)

\* the key check on a supplied previous result
stale_cache(prev, g) ==
    LET count_shared == Cardinality(DOMAIN prev \cap g.nodes)
    IN Cardinality(DOMAIN prev) # count_shared \/ Cardinality(g.nodes) # count_shared

\* G_prime after the structural change
changed_graph(g, u, v, insertion) ==
    IF insertion THEN add_edge(g, u, v) ELSE remove_edge(g, u, v)

\* variant: both endpoints measured on the graph as it is at call entry
measured_at_entry(g, u, v, insertion) == g

\* variant: both endpoints measured once the change is in place
measured_after_change(g, u, v, insertion) ==
    IF insertion THEN add_edge(g, u, v) ELSE remove_edge(g, u, v)

\* the graph du and dv are measured on
measured_graph(g, u, v, insertion) ==
    IF insertion THEN g ELSE remove_edge(g, u, v)

\* variant: a reuse test that tolerates a difference of two hops
unaffected_within_two(dist_u, dist_v, n) ==
    /\ n \in DOMAIN dist_u
    /\ n \in DOMAIN dist_v
    /\ Abs(dist_u[n] - dist_v[n]) <= 2

\* the reuse test of one node
unaffected(dist_u, dist_v, n) ==
    /\ n \in DOMAIN dist_u
    /\ n \in DOMAIN dist_v
    /\ Abs(dist_u[n] - dist_v[n]) <= 1

\* the per-node recomputation on G_prime
recompute(g_prime, n, normalized) ==
    LET sp == single_source_shortest_path_length(g_prime, n)
        totsp == SumValues(sp)
        reach == Cardinality(DOMAIN sp) - 1
    IN IF totsp > 0 /\ Cardinality(g_prime.nodes) > 1
       THEN LET c == Frac(reach, totsp)
            IN IF normalized THEN FracMul(c, Frac(reach, Cardinality(g_prime.nodes) - 1)) ELSE c
       ELSE Zero

\* "Leave the graph as we found it"
reverted_graph(g_prime, u, v, insertion) ==
    IF insertion THEN remove_edge(g_prime, u, v) ELSE add_edge(g_prime, u, v)

\* variant: a fast path without the Wasserman-Faust scaling
fast_path_unscaled(g_prime) == closeness_centrality(g_prime, NoMap, 0, FALSE, FALSE)

\* the fast path: no previous result
fast_path(g_prime) == closeness_centrality(g_prime, NoMap, 0, FALSE, TRUE)

\* the NetworkXError of the key check, and the one remove_edge raises for a missing edge
StaleCache == "NetworkXError: previous closeness centrality does not correspond to graph"
EdgeNotFound == "NetworkXError: the edge is not in the graph"

\* an exit by an error: the graph is left as it is at the raise
Raise(g, e, dist_u, dist_v) == [G |-> g, du |-> dist_u, dv |-> dist_v, ret |-> NoMap, err |-> e]

\* One whole call.  prev_given is prev_cc is not None.  fault names the place where
\* the shortest-path collaborator fails ("none": it never fails).
incremental_closeness_centrality(g, u, v, prev_given, prev_cc, insertion, normalized, fault) ==
    IF rejected(g) THEN Raise(g, "NetworkXNotImplemented", NoMap, NoMap)
    ELSE IF prev_given /\ stale_cache(prev_cc, g) THEN Raise(g, StaleCache, NoMap, NoMap)
    ELSE IF insertion /\ fault = "measure" THEN Raise(g, "OracleError", NoMap, NoMap)
    ELSE IF ~insertion /\ ~has_edge(g, u, v) THEN Raise(g, EdgeNotFound, NoMap, NoMap)
    ELSE
      LET G_prime == changed_graph(g, u, v, insertion)
          M == measured_graph(g, u, v, insertion)
          dist_u == single_source_shortest_path_length(M, u)
          dist_v == single_source_shortest_path_length(M, v)
      IN IF fault = "measure" THEN Raise(G_prime, "OracleError", NoMap, NoMap)
         ELSE IF ~prev_given
         THEN [G |-> G_prime, du |-> dist_u, dv |-> dist_v, ret |-> fast_path(G_prime),
               err |-> "none"]
         ELSE IF fault = "recompute" /\ \E n \in g.nodes : ~unaffected(dist_u, dist_v, n)
         THEN Raise(G_prime, "OracleError", dist_u, dist_v)
         ELSE [G |-> reverted_graph(G_prime, u, v, insertion),
               du |-> dist_u, dv |-> dist_v,
               ret |-> [n \in G_prime.nodes |->
                          IF unaffected(dist_u, dist_v, n) THEN prev_cc[n]
                          ELSE recompute(G_prime, n, normalized)],
               err |-> "none"]

-----------------------------------------------------------------------------
(* The graphs and previous results the caller can hold *)

UndirectedGraphs(K) ==
    UNION {{[nodes |-> 1..k, directed |-> FALSE, arcs |-> Sym(A)] :
              A \in SUBSET {p \in (1..k) \X (1..k) : p[1] < p[2]}} : k \in 1..K}

DirectedGraphs(K) ==
    UNION {{[nodes |-> 1..k, directed |-> TRUE, arcs |-> A] :
              A \in SUBSET {p \in (1..k) \X (1..k) : p[1] # p[2]}} : k \in 1..K}

PrevKinds == {"absent", "batch", "other", "missing", "extra", "both"}

\* The previous result of each kind: absent; the batch map of g with the call's
\* scaling flag; the batch map with the other flag; and a map whose keys are not
\* the graph's nodes: key m dropped, a key outside the graph added, or both.
prev_of(g, kind, m, normalized) ==
    LET extra == Cardinality(g.nodes) + 1
    IN CASE kind = "absent" -> NoMap
         [] kind = "batch" -> closeness_centrality(g, NoMap, 0, FALSE, normalized)
         [] kind = "other" -> closeness_centrality(g, NoMap, 0, FALSE, ~normalized)
         [] kind = "missing" -> [n \in g.nodes \ {m} |-> Zero]
         [] kind = "extra" -> [n \in g.nodes \cup {extra} |-> Zero]
         [] kind = "both" -> [n \in (g.nodes \ {m}) \cup {extra} |-> Zero]

-----------------------------------------------------------------------------
(* Actions *)

NoCall == [fn |-> "none"]

\* a call of incremental_closeness_centrality(G, (u, v), prev_cc, insertion, normalized)
Incremental(fault) ==
    /\ call = NoCall
    /\ \E u, v, m \in G.nodes, insertion, normalized \in BOOLEAN, kind \in PrevKinds :
          /\ u # v
          /\ kind \notin {"missing", "both"} => m = 1
          /\ \E prev_cc \in {prev_of(G, kind, m, normalized)} :
             \E out \in {incremental_closeness_centrality(G, u, v, kind # "absent", prev_cc,
                                                          insertion, normalized, fault)} :
                /\ fault # "none" => out.err = "OracleError"
                /\ G' = out.G
                /\ du' = out.du
                /\ dv' = out.dv
                /\ ret' = out.ret
                /\ err' = out.err
                /\ call' = [fn |-> "incremental", u |-> u, v |-> v, insertion |-> insertion,
                            normalized |-> normalized, kind |-> kind, prev_cc |-> prev_cc,
                            pre |-> G, fault |-> fault]
    /\ UNCHANGED attr

IncrementalCall == Incremental("none")

\* a call during which the shortest-path collaborator raises
IncrementalFault == \E fault \in {"measure", "recompute"} : Incremental(fault)

\* a call of closeness_centrality(G, u, distance, wf_improved)
ClosenessCall ==
    \E u \in {0} \cup G.nodes, distance, wf_improved \in BOOLEAN :
       /\ call = NoCall
       /\ ret' = closeness_centrality(G, attr, u, distance, wf_improved)
       /\ err' = "none"
       /\ call' = [fn |-> "closeness", u |-> u, distance |-> distance,
                   wf_improved |-> wf_improved]
       /\ du' = NoMap
       /\ dv' = NoMap
       /\ UNCHANGED <<G, attr>>

\* the caller takes the outcome of the call and goes on with its graph
Continue ==
    /\ call # NoCall
    /\ call' = NoCall
    /\ du' = NoMap
    /\ dv' = NoMap
    /\ ret' = NoMap
    /\ err' = "none"
    /\ UNCHANGED <<G, attr>>

-----------------------------------------------------------------------------
(* Specifications *)

\* incremental maintenance of an unweighted graph
Init ==
    /\ G \in UndirectedGraphs(MaxNodes) \cup DirectedGraphs(MaxRejected)
    /\ attr = NoMap
    /\ call = NoCall
    /\ du = NoMap
    /\ dv = NoMap
    /\ ret = NoMap
    /\ err = "none"

Next == IncrementalCall \/ Continue

Spec == Init /\ [][Next]_vars

\* the same, with a shortest-path collaborator that can fail
NextFault == IncrementalCall \/ IncrementalFault \/ Continue

SpecFault == Init /\ [][NextFault]_vars

\* batch computation on a graph whose edges carry the numeric attribute: every
\* edge of weight 1, or, on the smaller graphs, every edge of any weight
InitBatch ==
    /\ \/ /\ G \in UndirectedGraphs(MaxNodes) \cup DirectedGraphs(MaxDirNodes)
          /\ attr = [a \in G.arcs |-> WeightDen]
       \/ /\ G \in UndirectedGraphs(MaxWeighted) \cup DirectedGraphs(MaxWeighted)
          /\ attr \in [G.arcs -> Weights]
          /\ IF G.directed THEN TRUE ELSE \A a \in G.arcs : attr[a] = attr[<<a[2], a[1]>>]
    /\ call = NoCall
    /\ du = NoMap
    /\ dv = NoMap
    /\ ret = NoMap
    /\ err = "none"

NextBatch == ClosenessCall \/ Continue

SpecBatch == InitBatch /\ [][NextBatch]_vars

-----------------------------------------------------------------------------
(* Properties *)

\* the last call was incremental_closeness_centrality on an undirected graph and
\* the shortest-path collaborator did not fail
IncrementalOnUndirected ==
    call.fn = "incremental" /\ ~call.pre.directed /\ call.fault = "none"

\* C1 -- Insertion equivalence: on an undirected graph, with the batch map of the
\* graph (same scaling flag) as previous result, an insertion call returns exactly
\* the batch map of the graph with the edge (u, v) added.
InsertionEquivalence ==
    (IncrementalOnUndirected /\ call.insertion /\ call.kind = "batch")
    => /\ err = "none"
       /\ ret = closeness_centrality(add_edge(call.pre, call.u, call.v), NoMap, 0, FALSE,
                                     call.normalized)

\* a new edge was inserted; one node kept its previous value and another was
\* recomputed to a different one
InsertionEquivalenceWitness ==
    /\ IncrementalOnUndirected /\ call.insertion /\ call.kind = "batch"
    /\ ~has_edge(call.pre, call.u, call.v)
    /\ err = "none"
    /\ \E n \in call.pre.nodes :
          n \in DOMAIN du /\ n \in DOMAIN dv /\ Abs(du[n] - dv[n]) <= 1
    /\ \E n \in call.pre.nodes :
          /\ n \in DOMAIN du /\ n \in DOMAIN dv /\ Abs(du[n] - dv[n]) > 1
          /\ ret[n] # call.prev_cc[n]

\* C2 -- Deletion equivalence: on an undirected graph holding the edge (u, v), with
\* the batch map of the graph (same scaling flag) as previous result, a deletion call
\* returns exactly the batch map of the graph with the edge removed, also when the
\* removal disconnects the graph.
DeletionEquivalence ==
    (/\ IncrementalOnUndirected /\ ~call.insertion /\ call.kind = "batch"
     /\ has_edge(call.pre, call.u, call.v))
    => /\ err = "none"
       /\ ret = closeness_centrality(remove_edge(call.pre, call.u, call.v), NoMap, 0, FALSE,
                                     call.normalized)

\* an edge was deleted whose removal cut v off from u, and values changed
DeletionEquivalenceWitness ==
    /\ IncrementalOnUndirected /\ ~call.insertion /\ call.kind = "batch"
    /\ has_edge(call.pre, call.u, call.v)
    /\ err = "none"
    /\ call.v \notin DOMAIN du
    /\ Cardinality(DOMAIN du) > 1
    /\ ret # call.prev_cc

\* C3 -- Graph restoration: after a call with a previous result supplied that
\* returns a map, the graph equals the graph at call entry, for both values of the
\* insertion flag and whether or not the edge was present.
GraphRestoration ==
    (IncrementalOnUndirected /\ call.kind # "absent" /\ err = "none")
    => G = call.pre

\* C4 -- Cache validation, as claimed: a previous result whose key set is not the
\* node set always raises the validation error and leaves the graph unchanged; with
\* equal key sets the validation error is never raised.
CacheValidationAnyGraph ==
    (call.fn = "incremental" /\ call.fault = "none" /\ call.kind # "absent")
    => IF DOMAIN call.prev_cc # call.pre.nodes
       THEN err = StaleCache /\ G = call.pre
       ELSE err # StaleCache

\* C4, amended -- the same for calls on an undirected graph.
CacheValidation ==
    (IncrementalOnUndirected /\ call.kind # "absent")
    => IF DOMAIN call.prev_cc # call.pre.nodes
       THEN err = StaleCache /\ G = call.pre
       ELSE err # StaleCache

\* a previous result lacking a node and holding a foreign key was refused
CacheValidationWitness ==
    /\ IncrementalOnUndirected /\ call.kind = "both"
    /\ call.pre.nodes \ DOMAIN call.prev_cc # {}
    /\ DOMAIN call.prev_cc \ call.pre.nodes # {}
    /\ call.pre.arcs # {}
    /\ err = StaleCache
    /\ G = call.pre

\* C5 -- Directed rejection: a call on a directed graph always raises the
\* unsupported-graph-type error, whatever the edge, the previous result and the
\* insertion flag, with the graph untouched and nothing measured or returned.
DirectedRejection ==
    (call.fn = "incremental" /\ call.pre.directed)
    => /\ err = "NetworkXNotImplemented"
       /\ G = call.pre
       /\ du = NoMap /\ dv = NoMap /\ ret = NoMap

\* an insertion of a new edge with a valid previous result into a directed graph
\* was refused
DirectedRejectionWitness ==
    /\ call.fn = "incremental" /\ call.pre.directed
    /\ call.insertion /\ call.kind = "batch"
    /\ ~has_edge(call.pre, call.u, call.v)
    /\ err = "NetworkXNotImplemented"

\* a node without any edge
Isolated(g, n) == \A a \in g.arcs : a[1] # n /\ a[2] # n

\* every returned value is in [0, 1], and is 0 for an isolated node and for the
\* node of a one-node graph
ValuesInRange ==
    \A n \in DOMAIN ret :
       /\ ret[n][1] >= 0
       /\ FracLeq(ret[n], One)
       /\ (Isolated(G, n) \/ Cardinality(G.nodes) = 1) => ret[n] = Zero

\* C6 -- Range, as claimed: for every graph, both scaling flags and both distance
\* modes (weights any non-negative number), every value is in [0, 1] and is 0 for an
\* isolated node or a one-node graph.
RangeAnyWeight == call.fn = "closeness" => ValuesInRange

\* C6, amended -- the same when, in weighted mode, every edge weight is at least 1.
Range ==
    (call.fn = "closeness" /\ (call.distance => \A a \in G.arcs : attr[a] >= WeightDen))
    => ValuesInRange

\* a weighted, scaled computation on a directed graph with weights of at least 1,
\* one of them larger, that gave some node a value strictly between 0 and 1
RangeWitness ==
    /\ call.fn = "closeness" /\ call.distance /\ call.wf_improved /\ call.u = 0
    /\ G.directed
    /\ \A a \in G.arcs : attr[a] >= WeightDen
    /\ \E a \in G.arcs : attr[a] > WeightDen
    /\ \E n \in DOMAIN ret : ret[n][1] > 0 /\ ret[n] # One
    /\ ValuesInRange

\* the distances to n from the nodes that can reach n, given every node's map of
\* distances measured on the graph itself
IncomingDistanceMap(from, n) ==
    [m \in {x \in DOMAIN from : n \in DOMAIN from[x]} |-> from[m][n]]

\* C8 -- Incoming distances: on a directed graph the value of n is computed from
\* the distances to n of the nodes that can reach n; on an undirected graph from the
\* distances from n.
IncomingDistances ==
    call.fn = "closeness"
    => LET from == [m \in G.nodes |-> path_length(G, attr, call.distance, m)]
       IN \A n \in DOMAIN ret :
             ret[n] = node_closeness(IF G.directed THEN IncomingDistanceMap(from, n)
                                     ELSE from[n],
                                     unit_of(call.distance), Cardinality(G.nodes),
                                     call.wf_improved)

\* a weighted computation on a directed graph where some node's value differs from
\* the one its outgoing distances would give
IncomingDistancesWitness ==
    /\ call.fn = "closeness" /\ G.directed /\ call.distance /\ call.u = 0
    /\ \E n \in DOMAIN ret :
          /\ ret[n] # Zero
          /\ ret[n] # node_closeness(path_length(G, attr, call.distance, n),
                                     unit_of(call.distance), Cardinality(G.nodes),
                                     call.wf_improved)

RevertOnFailure ==
    (call.fn = "incremental" /\ err = "OracleError") => G = call.pre

=============================================================================
